---- MODULE Spec2Model ----
(***************************************************************************)
(* Model of the structured function-calling contract layer of agentic:     *)
(*   - the message model (src/unnamed/part_001: Msg.* helpers, predicates, *)
(*     narrow and narrowResponseMessage),                                  *)
(*   - the error classes (src/src/errors.ts),                              *)
(*   - the chain/agent loop (create-ai-chain, which src/src/index.ts       *)
(*     exports but whose source is not available: modelled from spec.md    *)
(*     sections 4.4, 4.5, 5 and 7).                                        *)
(*                                                                         *)
(* Two specifications:                                                     *)
(*   MsgSpec : the pure functions of the message model applied to inputs   *)
(*             drawn from bounded sets;                                    *)
(*   Spec    : the chain loop state machine.                               *)
(***************************************************************************)
EXTENDS Integers, Sequences, FiniteSets, TLC

\* ------------------------------------------------------------------ bounds

\* longest text content enumerated
MaxLen == 2
\* most entries in one tool_calls array
MaxCalls == 2
\* the loop's configured max-iterations budget
MaxIterations == 3
\* the attempt budget (opts.maxAttempts)
MaxAttempts == 1

\* ------------------------------------------------------- optional values

\* An optional field: absent/undefined (or null, for content) is the empty
\* set, a present value v is {v}.
None == {}

Some(v) == {v}

IsSome(o) == o # {}

Get(o) == CHOOSE v \in o : TRUE

\* ---------------------------------------------------------------- strings

\* Text is a sequence of characters over a small alphabet.
Chars == {" ", "a"}

IsSpace(c) == c = " "

Strings == UNION {[1..n -> Chars] : n \in 0..MaxLen}

RECURSIVE TrimStart(_)
TrimStart(s) ==
  IF s # <<>> /\ IsSpace(Head(s)) THEN TrimStart(Tail(s)) ELSE s

RECURSIVE TrimEnd(_)
TrimEnd(s) ==
  IF s # <<>> /\ IsSpace(s[Len(s)]) THEN TrimEnd(SubSeq(s, 1, Len(s) - 1)) ELSE s

\* utils.cleanStringForModel: trims the text (blank-line collapsing and
\* de-indenting need line breaks, which the alphabet does not have).
cleanStringForModel(s) == TrimEnd(TrimStart(s))

\* ------------------------------------------------------- message data model

Roles == {"system", "user", "assistant", "function", "tool"}

\* Msg.Call.Function
FunctionCalls == {[name |-> "get_weather", arguments |-> "{}"]}

\* Msg.Call.Tool
ToolEntry(id, name) ==
  [id |-> id, type |-> "function",
   function |-> [name |-> name, arguments |-> "{}"]]

\* the id of the i-th entry of a tool_calls array
CallId(i) == <<"call_1", "call_2", "call_3", "call_4">>[i]

\* tool_calls arrays: the empty array and the arrays of 1..MaxCalls entries
ToolCallArrays ==
  {[i \in 1..n |-> ToolEntry(CallId(i), "get_weather")] : n \in 0..MaxCalls}

Names == {"", "bob"}

\* interface Msg: every raw message.  content None is null; the other
\* fields None are undefined.
RawMsgs ==
  [role : Roles,
   content : {None} \cup {Some(s) : s \in Strings},
   function_call : {None} \cup {Some(f) : f \in FunctionCalls},
   tool_calls : {None} \cup {Some(t) : t \in ToolCallArrays},
   tool_call_id : {None} \cup {Some(i) : i \in {"", "call_1"}},
   name : {None} \cup {Some(n) : n \in Names}]

\* name ? { name } : {}   (an empty name is falsy)
NameOpt(name) == IF IsSome(name) /\ Get(name) # "" THEN name ELSE None

\* Mutant of CleanContentOf: the option defaults to false.
CleanContentOf_defaultOff(opt) == IF opt = None THEN FALSE ELSE Get(opt)

\* const { name, cleanContent = true } = opts ?? {}
CleanContentOf(opt) == IF opt = None THEN TRUE ELSE Get(opt)

\* --------------------------------------------------- construction helpers

system(content, name, cleanContent) ==
  [role |-> "system",
   content |-> Some(IF cleanContent THEN cleanStringForModel(content) ELSE content),
   function_call |-> None, tool_calls |-> None, tool_call_id |-> None,
   name |-> NameOpt(name)]

user(content, name, cleanContent) ==
  [role |-> "user",
   content |-> Some(IF cleanContent THEN cleanStringForModel(content) ELSE content),
   function_call |-> None, tool_calls |-> None, tool_call_id |-> None,
   name |-> NameOpt(name)]

assistant(content, name, cleanContent) ==
  [role |-> "assistant",
   content |-> Some(IF cleanContent THEN cleanStringForModel(content) ELSE content),
   function_call |-> None, tool_calls |-> None, tool_call_id |-> None,
   name |-> NameOpt(name)]

\* { ...opts, role, content: null, function_call }
funcCall(function_call, name) ==
  [role |-> "assistant", content |-> None,
   function_call |-> Some(function_call), tool_calls |-> None,
   tool_call_id |-> None, name |-> name]

\* contentString is stringifyForModel(content)
funcResult(contentString, name) ==
  [role |-> "function", content |-> Some(contentString),
   function_call |-> None, tool_calls |-> None, tool_call_id |-> None,
   name |-> Some(name)]

\* Mutant of toolCall: the content is the empty string instead of null.
toolCall_emptyContent(tool_calls, name) ==
  [role |-> "assistant", content |-> Some(<<>>),
   function_call |-> None, tool_calls |-> Some(tool_calls),
   tool_call_id |-> None, name |-> name]

\* { ...opts, role, content: null, tool_calls }
toolCall(tool_calls, name) ==
  [role |-> "assistant", content |-> None,
   function_call |-> None, tool_calls |-> Some(tool_calls),
   tool_call_id |-> None, name |-> name]

\* Mutant of toolResult: the tool_call_id is left out of the message.
toolResult_noId(contentString, tool_call_id, name) ==
  [role |-> "tool", content |-> Some(contentString),
   function_call |-> None, tool_calls |-> None,
   tool_call_id |-> None, name |-> name]

\* contentString is stringifyForModel(content)
toolResult(contentString, tool_call_id, name) ==
  [role |-> "tool", content |-> Some(contentString),
   function_call |-> None, tool_calls |-> None,
   tool_call_id |-> Some(tool_call_id), name |-> name]

\* ------------------------------------------------------------- outcomes

\* The outcome of a call: a returned message of a static variant, or a throw.
NoOutcome == [kind |-> "none", variant |-> "-", val |-> None, err |-> "-"]

Return(variant, m) == [kind |-> "return", variant |-> variant, val |-> Some(m), err |-> "-"]

Throw(message) == [kind |-> "throw", variant |-> "-", val |-> None, err |-> message]

\* ------------------------------------------------------------- narrowing

\* Mutant of narrowResponseMessage: function_call is tested before tool_calls.
narrowResponseMessage_funcFirst(msg) ==
  IF msg.content = None /\ IsSome(msg.function_call)
    THEN Return("FuncCall", funcCall(Get(msg.function_call), None))
  ELSE IF msg.content = None /\ IsSome(msg.tool_calls)
    THEN Return("ToolCall", toolCall(Get(msg.tool_calls), None))
  ELSE IF msg.content # None
    THEN Return("Assistant", assistant(Get(msg.content), None, TRUE))
  ELSE Throw("Invalid message")

\* Mutant of narrowResponseMessage: the input's name is passed on to the
\* message built.
narrowResponseMessage_keepsName(msg) ==
  IF msg.content = None /\ IsSome(msg.tool_calls)
    THEN Return("ToolCall", toolCall(Get(msg.tool_calls), msg.name))
  ELSE IF msg.content = None /\ IsSome(msg.function_call)
    THEN Return("FuncCall", funcCall(Get(msg.function_call), msg.name))
  ELSE IF msg.content # None
    THEN Return("Assistant", assistant(Get(msg.content), msg.name, TRUE))
  ELSE Throw("Invalid message")

narrowResponseMessage(msg) ==
  IF msg.content = None /\ IsSome(msg.tool_calls)
    THEN Return("ToolCall", toolCall(Get(msg.tool_calls), None))
  ELSE IF msg.content = None /\ IsSome(msg.function_call)
    THEN Return("FuncCall", funcCall(Get(msg.function_call), None))
  ELSE IF msg.content # None
    THEN Return("Assistant", assistant(Get(msg.content), None, TRUE))
  ELSE Throw("Invalid message")

isSystem(message) == message.role = "system"

isUser(message) == message.role = "user"

\* Mutant of isAssistant: the content is not tested.
isAssistant_roleOnly(message) == message.role = "assistant"

isAssistant(message) == message.role = "assistant" /\ message.content # None

isFuncCall(message) == message.role = "assistant" /\ IsSome(message.function_call)

isFuncResult(message) == message.role = "function" /\ IsSome(message.name)

\* Mutant of isToolCall: tool_calls is not tested.
isToolCall_roleOnly(message) == message.role = "assistant"

isToolCall(message) == message.role = "assistant" /\ IsSome(message.tool_calls)

\* !!message.tool_call_id : undefined and the empty string are both falsy
isToolResult(message) ==
  message.role = "tool" /\ IsSome(message.tool_call_id) /\ Get(message.tool_call_id) # ""

narrow(message) ==
  IF isSystem(message) THEN Return("System", message)
  ELSE IF isUser(message) THEN Return("User", message)
  ELSE IF isAssistant(message) THEN Return("Assistant", message)
  ELSE IF isFuncCall(message) THEN Return("FuncCall", message)
  ELSE IF isFuncResult(message) THEN Return("FuncResult", message)
  ELSE IF isToolCall(message) THEN Return("ToolCall", message)
  ELSE IF isToolResult(message) THEN Return("ToolResult", message)
  ELSE Throw("Invalid message type")

\* The predicates that return true on a message.
TruePredicates(message) ==
  {p \in {"isSystem", "isUser", "isAssistant", "isFuncCall", "isFuncResult",
          "isToolCall", "isToolResult"} :
     \/ p = "isSystem" /\ isSystem(message)
     \/ p = "isUser" /\ isUser(message)
     \/ p = "isAssistant" /\ isAssistant(message)
     \/ p = "isFuncCall" /\ isFuncCall(message)
     \/ p = "isFuncResult" /\ isFuncResult(message)
     \/ p = "isToolCall" /\ isToolCall(message)
     \/ p = "isToolResult" /\ isToolResult(message)}

\* The variants of the data model whose shape a message has (types
\* Msg.System .. Msg.ToolResult): role, content null or not, and which of
\* function_call, tool_calls and tool_call_id are set.  name is optional on
\* every variant and required on FuncResult.
VariantsOf(m) ==
  LET noCall == m.function_call = None /\ m.tool_calls = None
      text == m.content # None
      noId == m.tool_call_id = None
  IN  {v \in {"System", "User", "Assistant", "FuncCall", "FuncResult",
              "ToolCall", "ToolResult"} :
         \/ v = "System" /\ m.role = "system" /\ text /\ noCall /\ noId
         \/ v = "User" /\ m.role = "user" /\ text /\ noCall /\ noId
         \/ v = "Assistant" /\ m.role = "assistant" /\ text /\ noCall /\ noId
         \/ v = "FuncCall" /\ m.role = "assistant" /\ ~text /\ noId
              /\ IsSome(m.function_call) /\ m.tool_calls = None
         \/ v = "ToolCall" /\ m.role = "assistant" /\ ~text /\ noId
              /\ IsSome(m.tool_calls) /\ m.function_call = None
         \/ v = "FuncResult" /\ m.role = "function" /\ text /\ noCall /\ noId
              /\ IsSome(m.name)
         \/ v = "ToolResult" /\ m.role = "tool" /\ text /\ noCall
              /\ IsSome(m.tool_call_id)}

\* A well-formed message has the shape of one of the seven variants.
WellFormed(m) == VariantsOf(m) # {}

\* ------------------------------------------------------------------ state

VARIABLES
  msg,          \* MsgSpec: the raw message the functions are applied to
  op,           \* MsgSpec: the function applied ("init" before any)
  cleanContent, \* MsgSpec: the cleanContent option given to a text helper, if any
  out,          \* MsgSpec: the outcome of the function
  preds,        \* MsgSpec: the predicates found true by CheckPredicates
  state,        \* loop: AWAITING_MODEL, DISPATCHING_TOOLS, DONE or FAILED
  conversation, \* loop: the messages of the run, in order
  calls,        \* loop: the call entries of the batch being dispatched
  legacy,       \* loop: the batch is a legacy function_call
  results,      \* loop: per call of the batch, its result content once resolved
  outOfOrder,   \* loop: a call of the batch completed before an earlier call
  submissions,  \* loop: model submissions made
  attempts,     \* loop: retryable errors turned into corrective content
  retryPending, \* loop: corrective content awaits the next submission
  resubmissions,\* loop: submissions made to retry after a retryable error
  lastError,    \* loop: class and origin of the error raised in this iteration
  classified,   \* loop: how the handler classified that error
  failure       \* loop: what FAILED holds

msgVars == <<msg, op, cleanContent, out, preds>>

loopVars ==
  <<state, conversation, calls, legacy, results, outOfOrder, submissions,
    attempts, retryPending, resubmissions, lastError, classified, failure>>

vars == <<msgVars, loopVars>>

\* ------------------------------------------------- MsgSpec: pure functions

\* The loop's variables while the message functions are exercised.
LoopIdle ==
  /\ state = "AWAITING_MODEL"
  /\ conversation = <<>>
  /\ calls = <<>>
  /\ legacy = FALSE
  /\ results = <<>>
  /\ outOfOrder = FALSE
  /\ submissions = 0
  /\ attempts = 0
  /\ retryPending = FALSE
  /\ resubmissions = 0
  /\ lastError = [class |-> "none", origin |-> "none"]
  /\ classified = "none"
  /\ failure = [kind |-> "none", call |-> 0]

MsgInit ==
  /\ LoopIdle
  /\ msg \in RawMsgs
  /\ op = "init"
  /\ cleanContent = None
  /\ out = NoOutcome
  /\ preds = {}

Apply(name, outcome) ==
  /\ op = "init"
  /\ op' = name
  /\ out' = outcome
  /\ UNCHANGED <<msg, preds, loopVars>>

Narrow == Apply("narrow", narrow(msg)) /\ UNCHANGED cleanContent

NarrowResponseMessage ==
  Apply("narrowResponseMessage", narrowResponseMessage(msg)) /\ UNCHANGED cleanContent

CheckPredicates ==
  /\ op = "init"
  /\ op' = "predicates"
  /\ preds' = TruePredicates(msg)
  /\ UNCHANGED <<msg, out, cleanContent, loopVars>>

\* The helpers take their arguments from the fields of msg; the cleanContent
\* option is left out, true or false.
System ==
  /\ msg.content # None
  /\ \E c \in {None, Some(TRUE), Some(FALSE)} :
       /\ cleanContent' = c
       /\ Apply("system",
                Return("System", system(Get(msg.content), msg.name, CleanContentOf(c))))

User ==
  /\ msg.content # None
  /\ \E c \in {None, Some(TRUE), Some(FALSE)} :
       /\ cleanContent' = c
       /\ Apply("user",
                Return("User", user(Get(msg.content), msg.name, CleanContentOf(c))))

Assistant ==
  /\ msg.content # None
  /\ \E c \in {None, Some(TRUE), Some(FALSE)} :
       /\ cleanContent' = c
       /\ Apply("assistant",
                Return("Assistant", assistant(Get(msg.content), msg.name, CleanContentOf(c))))

FuncCall ==
  /\ IsSome(msg.function_call)
  /\ Apply("funcCall", Return("FuncCall", funcCall(Get(msg.function_call), msg.name)))
  /\ UNCHANGED cleanContent

\* stringifyForModel(content) is some string
FuncResult ==
  /\ IsSome(msg.name)
  /\ \E s \in Strings :
       Apply("funcResult", Return("FuncResult", funcResult(s, Get(msg.name))))
  /\ UNCHANGED cleanContent

ToolCall ==
  /\ IsSome(msg.tool_calls)
  /\ Apply("toolCall", Return("ToolCall", toolCall(Get(msg.tool_calls), msg.name)))
  /\ UNCHANGED cleanContent

ToolResult ==
  /\ IsSome(msg.tool_call_id)
  /\ \E s \in Strings :
       Apply("toolResult",
             Return("ToolResult", toolResult(s, Get(msg.tool_call_id), msg.name)))
  /\ UNCHANGED cleanContent

MsgNext ==
  \/ Narrow
  \/ NarrowResponseMessage
  \/ CheckPredicates
  \/ System
  \/ User
  \/ Assistant
  \/ FuncCall
  \/ FuncResult
  \/ ToolCall
  \/ ToolResult

MsgSpec == MsgInit /\ [][MsgNext]_vars

\* ------------------------------------------------------------ error classes

ErrorClasses == {"Error", "RetryableError", "ParseError", "TimeoutError"}

\* Mutant of Superclass: TimeoutError extends RetryableError.
Superclass_timeoutRetryable(c) ==
  CASE c = "RetryableError" -> "Error"
    [] c = "ParseError" -> "RetryableError"
    [] c = "TimeoutError" -> "RetryableError"
    [] OTHER -> "Object"

\* Mutant of Superclass: ParseError extends Error.
Superclass_parsePlain(c) ==
  CASE c = "RetryableError" -> "Error"
    [] c = "ParseError" -> "Error"
    [] c = "TimeoutError" -> "Error"
    [] OTHER -> "Object"

\* the extends clauses of the error classes
Superclass(c) ==
  CASE c = "RetryableError" -> "Error"
    [] c = "ParseError" -> "RetryableError"
    [] c = "TimeoutError" -> "Error"
    [] OTHER -> "Object"

\* e instanceof base
RECURSIVE InstanceOf(_, _)
InstanceOf(c, base) ==
  IF c = base THEN TRUE
  ELSE IF c = "Object" THEN FALSE
  ELSE InstanceOf(Superclass(c), base)

\* ---------------------------------------------------------- chain/agent loop

\* the tool registry: names with a ToolBinding
Registered == {"get_weather"}

\* the names a model may put in a call
ToolNames == {"get_weather", "foo"}

\* result and corrective contents, already stringified
OkText == <<"o", "k">>

UnknownToolText == <<"u", "n", "k">>

RetryText == <<"e", "r", "r">>

CorrectiveText == <<"f", "i", "x">>

\* the seed conversation: system + user messages
Seed == <<system(<<"s">>, None, TRUE), user(<<"u">>, None, TRUE)>>

LoopToolCallArrays ==
  UNION {{[i \in 1..n |-> ToolEntry(CallId(i), nm[i])] : nm \in [1..n -> ToolNames]} :
           n \in 0..MaxCalls}

RawResponse(content, function_call, tool_calls) ==
  [role |-> "assistant", content |-> content, function_call |-> function_call,
   tool_calls |-> tool_calls, tool_call_id |-> None, name |-> None]

\* what the model transport may return
Responses ==
  {RawResponse(Some(<<"a">>), None, None), RawResponse(None, None, None)}
  \cup {RawResponse(None, Some(f), None) : f \in FunctionCalls}
  \cup {RawResponse(None, None, Some(t)) : t \in LoopToolCallArrays}
  \cup {RawResponse(None, Some(f), Some(t)) : f \in FunctionCalls, t \in LoopToolCallArrays}

Terminal == {"DONE", "FAILED"}

LoopInit ==
  /\ state = "AWAITING_MODEL"
  /\ conversation = Seed
  /\ calls = <<>>
  /\ legacy = FALSE
  /\ results = <<>>
  /\ outOfOrder = FALSE
  /\ submissions = 0
  /\ attempts = 0
  /\ retryPending = FALSE
  /\ resubmissions = 0
  /\ lastError = [class |-> "none", origin |-> "none"]
  /\ classified = "none"
  /\ failure = [kind |-> "none", call |-> 0]

\* The message functions' variables while the loop runs.
MsgIdle ==
  /\ msg = RawResponse(None, None, None)
  /\ op = "idle"
  /\ cleanContent = None
  /\ out = NoOutcome
  /\ preds = {}

Init == MsgIdle /\ LoopInit

\* the handler's test: retryable errors are instances of RetryableError
Classify(e) == IF InstanceOf(e, "RetryableError") THEN "retryable" ELSE "fatal"

\* Mutant of WithinBudget: the attempt budget is never tested.
WithinBudget_unbounded == TRUE

\* the attempt budget still allows a retry
WithinBudget == attempts < MaxAttempts

Raise(e, origin) ==
  /\ lastError' = [class |-> e, origin |-> origin]
  /\ classified' = Classify(e)

\* an iteration that begins without an error
NoError ==
  /\ lastError' = [class |-> "none", origin |-> "none"]
  /\ classified' = "none"

Fail(kind, call) ==
  /\ state' = "FAILED"
  /\ failure' = [kind |-> kind, call |-> call]

\* the bookkeeping of one model submission
Submitting ==
  /\ state = "AWAITING_MODEL"
  /\ submissions < MaxIterations
  /\ submissions' = submissions + 1
  /\ resubmissions' = resubmissions + (IF retryPending THEN 1 ELSE 0)

\* AWAITING_MODEL: the transport exceeds its deadline.
SubmitTimeout ==
  /\ Submitting
  /\ Raise("TimeoutError", "transport")
  /\ IF Classify("TimeoutError") = "retryable" /\ WithinBudget
       THEN /\ attempts' = attempts + 1
            /\ retryPending' = TRUE
            /\ UNCHANGED <<state, failure>>
       ELSE /\ Fail("TimeoutError", 0)
            /\ retryPending' = FALSE
            /\ UNCHANGED attempts
  /\ UNCHANGED <<conversation, calls, legacy, results, outOfOrder, msgVars>>

\* AWAITING_MODEL: the response cannot be narrowed.
SubmitProtocolError ==
  /\ Submitting
  /\ \E r \in Responses :
       /\ narrowResponseMessage(r).kind = "throw"
       /\ Raise("Error", "narrow")
       /\ Fail("ProtocolError", 0)
  /\ retryPending' = FALSE
  /\ UNCHANGED <<conversation, calls, legacy, results, outOfOrder, attempts, msgVars>>

\* AWAITING_MODEL: the response narrows to an Assistant message with the
\* final answer.
SubmitDone ==
  /\ Submitting
  /\ \E r \in Responses :
       LET n == narrowResponseMessage(r) IN
       /\ n.kind = "return" /\ n.variant = "Assistant"
       /\ conversation' = Append(conversation, Get(n.val))
  /\ state' = "DONE"
  /\ retryPending' = FALSE
  /\ NoError
  /\ UNCHANGED <<calls, legacy, results, outOfOrder, attempts, failure, msgVars>>

\* AWAITING_MODEL: the response narrows to an Assistant message from which
\* extract raises ParseError.
SubmitParseError ==
  /\ Submitting
  /\ \E r \in Responses :
       LET n == narrowResponseMessage(r) IN
       /\ n.kind = "return" /\ n.variant = "Assistant"
       /\ Raise("ParseError", "extract")
       /\ IF Classify("ParseError") = "retryable" /\ WithinBudget
            THEN /\ conversation' =
                      conversation \o <<Get(n.val), user(CorrectiveText, None, TRUE)>>
                 /\ attempts' = attempts + 1
                 /\ retryPending' = TRUE
                 /\ UNCHANGED <<state, failure>>
            ELSE /\ conversation' = Append(conversation, Get(n.val))
                 /\ Fail("ParseError", 0)
                 /\ retryPending' = FALSE
                 /\ UNCHANGED attempts
  /\ UNCHANGED <<calls, legacy, results, outOfOrder, msgVars>>

\* AWAITING_MODEL: the response narrows to a ToolCall or FuncCall message.
SubmitCall ==
  /\ Submitting
  /\ \E r \in Responses :
       LET n == narrowResponseMessage(r) IN
       /\ n.kind = "return" /\ n.variant \in {"ToolCall", "FuncCall"}
       /\ conversation' = Append(conversation, Get(n.val))
       /\ legacy' = (n.variant = "FuncCall")
       /\ calls' = IF n.variant = "ToolCall"
                     THEN Get(Get(n.val).tool_calls)
                     ELSE <<[id |-> "", type |-> "function",
                             function |-> Get(Get(n.val).function_call)]>>
       /\ results' = [i \in 1..Len(calls') |-> None]
  /\ state' = "DISPATCHING_TOOLS"
  /\ outOfOrder' = FALSE
  /\ retryPending' = FALSE
  /\ NoError
  /\ UNCHANGED <<attempts, failure, msgVars>>

\* a call before call i has not completed yet
EarlierUnresolved(i) == \E j \in 1..(i - 1) : results[j] = None

Unresolved(i) ==
  /\ state = "DISPATCHING_TOOLS"
  /\ i \in 1..Len(calls)
  /\ results[i] = None

\* Mutant of DispatchUnknown: an unknown name aborts the run.
DispatchUnknown_aborts(i) ==
  /\ Unresolved(i)
  /\ calls[i].function.name \notin Registered
  /\ outOfOrder' = (outOfOrder \/ EarlierUnresolved(i))
  /\ Raise("Error", "tool")
  /\ Fail("Error", i)
  /\ UNCHANGED <<conversation, calls, legacy, results, submissions, attempts,
                 retryPending, resubmissions, msgVars>>

\* DISPATCHING_TOOLS: call i names no registered tool.
DispatchUnknown(i) ==
  /\ Unresolved(i)
  /\ calls[i].function.name \notin Registered
  /\ results' = [results EXCEPT ![i] = Some(UnknownToolText)]
  /\ outOfOrder' = (outOfOrder \/ EarlierUnresolved(i))
  /\ UNCHANGED <<state, conversation, calls, legacy, submissions, attempts,
                 retryPending, resubmissions, lastError, classified, failure,
                 msgVars>>

\* DISPATCHING_TOOLS: invoke of call i returns a result.
InvokeReturns(i) ==
  /\ Unresolved(i)
  /\ calls[i].function.name \in Registered
  /\ results' = [results EXCEPT ![i] = Some(OkText)]
  /\ outOfOrder' = (outOfOrder \/ EarlierUnresolved(i))
  /\ UNCHANGED <<state, conversation, calls, legacy, submissions, attempts,
                 retryPending, resubmissions, lastError, classified, failure,
                 msgVars>>

\* DISPATCHING_TOOLS: invoke of call i throws an error of class e.
InvokeThrows(i, e) ==
  /\ Unresolved(i)
  /\ calls[i].function.name \in Registered
  /\ outOfOrder' = (outOfOrder \/ EarlierUnresolved(i))
  /\ Raise(e, "tool")
  /\ IF Classify(e) = "retryable" /\ WithinBudget
       THEN /\ results' = [results EXCEPT ![i] = Some(RetryText)]
            /\ attempts' = attempts + 1
            /\ retryPending' = TRUE
            /\ UNCHANGED <<state, failure>>
       ELSE /\ Fail(e, i)
            /\ UNCHANGED <<results, attempts, retryPending>>
  /\ UNCHANGED <<conversation, calls, legacy, submissions, resubmissions, msgVars>>

\* the result messages of the batch, in call order
BatchResults ==
  [i \in 1..Len(calls) |->
     IF legacy
       THEN funcResult(Get(results[i]), calls[i].function.name)
       ELSE toolResult(Get(results[i]), calls[i].id, None)]

\* DISPATCHING_TOOLS: every call of the batch is resolved.
AppendResults ==
  /\ state = "DISPATCHING_TOOLS"
  /\ \A i \in 1..Len(calls) : results[i] # None
  /\ conversation' = conversation \o BatchResults
  /\ state' = "AWAITING_MODEL"
  /\ UNCHANGED <<calls, legacy, results, outOfOrder, submissions, attempts,
                 retryPending, resubmissions, lastError, classified, failure,
                 msgVars>>

\* AWAITING_MODEL: the iteration budget is spent.
BudgetExhausted ==
  /\ state = "AWAITING_MODEL"
  /\ submissions >= MaxIterations
  /\ Fail("MaxIterations", 0)
  /\ UNCHANGED <<conversation, calls, legacy, results, outOfOrder, submissions,
                 attempts, retryPending, resubmissions, lastError, classified,
                 msgVars>>

\* the external cancellation signal
Cancel ==
  /\ state \notin Terminal
  /\ Fail("Cancelled", 0)
  /\ UNCHANGED <<conversation, calls, legacy, results, outOfOrder, submissions,
                 attempts, retryPending, resubmissions, lastError, classified,
                 msgVars>>

\* the steps of the loop's own task
Step ==
  \/ SubmitTimeout
  \/ SubmitProtocolError
  \/ SubmitDone
  \/ SubmitParseError
  \/ SubmitCall
  \/ \E i \in 1..MaxCalls : DispatchUnknown(i)
  \/ \E i \in 1..MaxCalls : InvokeReturns(i)
  \/ \E i \in 1..MaxCalls, e \in ErrorClasses : InvokeThrows(i, e)
  \/ AppendResults
  \/ BudgetExhausted

Next == Step \/ Cancel

Spec == Init /\ [][Next]_vars

\* The loop's task keeps running: the transport and the tools return or time
\* out, and the loop takes its next step.
FairSpec == Spec /\ WF_vars(Step)

\* ------------------------------------------------------ message model claims

NullContentNoCall(m) ==
  m.content = None /\ m.function_call = None /\ m.tool_calls = None

\* The message an outcome returned.
Returned == Get(out.val)

\* C1: narrowResponseMessage classifies by first match: null content and
\* tool_calls present gives a ToolCall (also when function_call is present
\* too), else null content and function_call present gives a FuncCall, else
\* non-null content gives an Assistant; the message returned has the shape of
\* exactly that variant and carries the selected payload.
C1_ResponseClassifiedByFirstMatch ==
  op = "narrowResponseMessage" =>
    /\ (msg.content = None /\ IsSome(msg.tool_calls)) =>
         /\ out.kind = "return" /\ out.variant = "ToolCall"
         /\ VariantsOf(Returned) = {"ToolCall"}
         /\ Returned.tool_calls = msg.tool_calls
    /\ (msg.content = None /\ msg.tool_calls = None /\ IsSome(msg.function_call)) =>
         /\ out.kind = "return" /\ out.variant = "FuncCall"
         /\ VariantsOf(Returned) = {"FuncCall"}
         /\ Returned.function_call = msg.function_call
    /\ msg.content # None =>
         /\ out.kind = "return" /\ out.variant = "Assistant"
         /\ VariantsOf(Returned) = {"Assistant"}

C1_Witness ==
  /\ op = "narrowResponseMessage"
  /\ msg.content = None /\ IsSome(msg.tool_calls) /\ IsSome(msg.function_call)
  /\ out.variant = "ToolCall"

\* C2: narrowing (narrow or narrowResponseMessage) a message whose content is
\* null and that has neither function_call nor tool_calls throws, whatever the
\* role of the message.
C2_NullContentNoCallThrows ==
  (op \in {"narrow", "narrowResponseMessage"} /\ NullContentNoCall(msg)) =>
    out.kind = "throw"

EmptyIdToolResult(m) == VariantsOf(m) = {"ToolResult"} /\ Get(m.tool_call_id) = ""

MessageInvariant(m) ==
  LET isCall == IsSome(m.function_call) \/ IsSome(m.tool_calls)
  IN  /\ (m.content = None) <=> isCall
      /\ isCall => ~(IsSome(m.function_call) /\ IsSome(m.tool_calls))

Producers ==
  {"system", "user", "assistant", "funcCall", "funcResult", "toolCall",
   "toolResult", "narrowResponseMessage"}

\* C5: every message built by a construction helper or returned by
\* narrowResponseMessage satisfies the message invariant.
C5_ProducedMessagesKeepInvariant ==
  (op \in Producers /\ out.kind = "return") => MessageInvariant(Returned)

C5_Witness ==
  /\ op = "toolCall"
  /\ IsSome(msg.function_call) /\ msg.content # None
  /\ out.kind = "return"
  /\ Returned.content = None /\ Returned.function_call = None

TextHelpers == {"system", "user", "assistant"}

\* the text has no whitespace at either end
IsTrimmed(s) == s = <<>> \/ (~IsSpace(s[1]) /\ ~IsSpace(s[Len(s)]))

\* C11: system, user and assistant return a message with the helper's role;
\* its content is the cleaned input when cleanContent is left out or true
\* and exactly the input when cleanContent is false; its name is the name
\* given when that is non-empty and is absent otherwise.
C11_TextHelpersClean ==
  op \in TextHelpers =>
    LET input == Get(msg.content) IN
    /\ out.kind = "return"
    /\ Returned.role = op
    /\ cleanContent \in {None, Some(TRUE)} =>
         /\ Returned.content = Some(cleanStringForModel(input))
         /\ IsTrimmed(Get(Returned.content))
    /\ cleanContent = Some(FALSE) => Returned.content = Some(input)
    /\ Returned.name = (IF msg.name \in {None, Some("")} THEN None ELSE msg.name)
    /\ Returned.function_call = None /\ Returned.tool_calls = None
    /\ Returned.tool_call_id = None

C11_Witness ==
  /\ op = "user"
  /\ cleanContent = None
  /\ msg.content = Some(<<" ", "a">>)
  /\ msg.name = Some("")
  /\ Returned.content = Some(<<"a">>)
  /\ Returned.name = None

\* C12: on an assistant-role message that narrow and narrowResponseMessage
\* both accept, narrow selects the variant narrowResponseMessage selects.
C12_NarrowingsAgree ==
  (/\ op = "narrow"
   /\ msg.role = "assistant"
   /\ out.kind = "return"
   /\ narrowResponseMessage(msg).kind = "return")
  => out.variant = narrowResponseMessage(msg).variant

\* C13: narrow returns the message it was given, every field unchanged;
\* narrowResponseMessage returns a message with role assistant, no name, no
\* tool_call_id, and either the input's tool_calls alone with null content,
\* or the input's function_call alone with null content, or no call field
\* and the cleaned input content; no function changes the message given.
C13_NarrowFrames ==
  /\ []((op = "narrow" /\ out.kind = "return") => Returned = msg)
  /\ []((op = "narrowResponseMessage" /\ out.kind = "return") =>
          /\ Returned.role = "assistant"
          /\ Returned.name = None
          /\ Returned.tool_call_id = None
          /\ out.variant = "ToolCall" =>
               /\ Returned.tool_calls = msg.tool_calls
               /\ Returned.function_call = None
               /\ Returned.content = None
          /\ out.variant = "FuncCall" =>
               /\ Returned.function_call = msg.function_call
               /\ Returned.tool_calls = None
               /\ Returned.content = None
          /\ out.variant = "Assistant" =>
               /\ Returned.content = Some(cleanStringForModel(Get(msg.content)))
               /\ Returned.function_call = None
               /\ Returned.tool_calls = None)
  /\ [][msg' = msg]_vars

C13_Witness ==
  /\ op = "narrowResponseMessage"
  /\ msg.role = "tool"
  /\ msg.name = Some("bob")
  /\ msg.tool_call_id = Some("call_1")
  /\ IsSome(msg.function_call)
  /\ msg.content = Some(<<"a", " ">>)
  /\ Returned =
       [role |-> "assistant", content |-> Some(<<"a">>), function_call |-> None,
        tool_calls |-> None, tool_call_id |-> None, name |-> None]

\* -------------------------------------------------------------- loop claims

\* The ToolCall message at position k of the conversation is followed by one
\* ToolResult per call, in call order, each with the id of its call.
BatchAnswered(k) ==
  LET tc == Get(conversation[k].tool_calls) IN
  \A i \in 1..Len(tc) :
    /\ k + i <= Len(conversation)
    /\ conversation[k + i].role = "tool"
    /\ conversation[k + i].tool_call_id = Some(tc[i].id)

AllBatchesAnswered ==
  \A k \in 1..Len(conversation) :
    IsSome(conversation[k].tool_calls) => BatchAnswered(k)

\* C6: whenever the loop awaits the model or is done, every ToolCall message
\* of the conversation is followed by the ToolResults of its calls in call
\* order, each carrying the id of its own call, whatever the order in which
\* the calls completed; and a model submission is made only from
\* AWAITING_MODEL with every batch answered in the conversation.
C6_ResultsInCallOrder ==
  /\ [](state \in {"AWAITING_MODEL", "DONE"} => AllBatchesAnswered)
  /\ [][submissions' # submissions =>
          (state = "AWAITING_MODEL" /\ AllBatchesAnswered)]_vars

C6_Witness ==
  /\ state = "AWAITING_MODEL"
  /\ ~legacy
  /\ outOfOrder
  /\ Len(calls) = 2
  /\ conversation[Len(conversation) - 1].tool_call_id = Some(calls[1].id)
  /\ conversation[Len(conversation)].tool_call_id = Some(calls[2].id)
  /\ calls[1].id # calls[2].id

\* C7: a call naming an unregistered tool is answered by a ToolResult with
\* the error payload; no run is FAILED by the handling of such a call, and
\* once every call of a batch has completed the loop can append the results
\* and return to AWAITING_MODEL.
C7_UnknownToolAnswered ==
  /\ \A k \in 1..Len(conversation) :
       IsSome(conversation[k].tool_calls) =>
         \A i \in 1..Len(Get(conversation[k].tool_calls)) :
           (/\ Get(conversation[k].tool_calls)[i].function.name \notin Registered
            /\ k + i <= Len(conversation))
           => /\ conversation[k + i].role = "tool"
              /\ conversation[k + i].content = Some(UnknownToolText)
  /\ (state = "FAILED" /\ failure.call # 0) =>
       calls[failure.call].function.name \in Registered
  /\ \A i \in 1..Len(calls) :
       (results[i] # None /\ calls[i].function.name \notin Registered) =>
         results[i] = Some(UnknownToolText)
  /\ (state = "DISPATCHING_TOOLS" /\ \A i \in 1..Len(calls) : results[i] # None) =>
       ENABLED AppendResults

C7_Witness ==
  /\ state = "AWAITING_MODEL"
  /\ calls # <<>>
  /\ \A i \in 1..Len(calls) : calls[i].function.name = "foo"
  /\ conversation[Len(conversation)].role = "tool"
  /\ conversation[Len(conversation)].content = Some(UnknownToolText)

\* C8: a run makes at most MaxAttempts submissions to retry after a
\* retryable error, a retryable error fails the run only when the attempt
\* budget is spent, and every run reaches DONE or FAILED.
C8_RetryBound ==
  /\ [](resubmissions <= MaxAttempts /\ attempts <= MaxAttempts)
  /\ []((state = "FAILED" /\ failure.kind \in {"ParseError", "RetryableError"}) =>
          attempts = MaxAttempts)
  /\ <>(state \in Terminal)

C8_Witness ==
  /\ state = "FAILED"
  /\ failure.kind = "ParseError"
  /\ lastError.origin = "extract"
  /\ resubmissions = MaxAttempts

\* C9: after a TimeoutError, a ProtocolError (the Error thrown by narrowing)
\* or an unclassified Error of a tool the run is FAILED, and from DONE and
\* FAILED nothing changes: no state change, no submission, no message.
C9_FatalIsTerminal ==
  /\ [](lastError.class \in {"TimeoutError", "Error"} => state = "FAILED")
  /\ [][(state \in Terminal) => UNCHANGED <<state, submissions, conversation>>]_vars

C9_Witness ==
  /\ state = "FAILED"
  /\ lastError = [class |-> "TimeoutError", origin |-> "tool"]
  /\ submissions < MaxIterations

\* C10: ParseError is a RetryableError and TimeoutError is not: the handler
\* classifies every ParseError retryable and retries it while the budget
\* lasts, and classifies every TimeoutError fatal and fails the run.
C10_Classification ==
  /\ InstanceOf("ParseError", "RetryableError")
  /\ ~InstanceOf("TimeoutError", "RetryableError")
  /\ lastError.class = "ParseError" =>
       /\ classified = "retryable"
       /\ (state = "FAILED" /\ failure.kind = "ParseError") => attempts = MaxAttempts
  /\ lastError.class = "TimeoutError" =>
       /\ classified = "fatal"
       /\ state = "FAILED"

C10_Witness ==
  /\ lastError = [class |-> "ParseError", origin |-> "tool"]
  /\ classified = "retryable"
  /\ state = "AWAITING_MODEL"
  /\ conversation[Len(conversation)].content = Some(RetryText)

====
